---- MODULE Spec2Model ----
(***************************************************************************)
(* Concept-map core of the Socratic tutor: the graph model that merges the *)
(* language model's proposals (services/geminiService.ts,                  *)
(* generateConceptMapUpdate), the conversation turn that drives it         *)
(* (components/ConceptBuilder.tsx, handleSend) and the force-directed      *)
(* layout engine (components/ConceptBuilder.tsx, useForceLayout).          *)
(*                                                                         *)
(* A label is a sequence of characters; toLowerCase is applied character   *)
(* by character.  A missing (undefined) label is the value Undefined, on   *)
(* which toLowerCase throws a TypeError.                                   *)
(***************************************************************************)
EXTENDS Integers, Sequences, FiniteSets, TLC

VARIABLES
    input,        \* the text field (useState input)
    loading,      \* useState loading
    conceptMap,   \* useState conceptMap: [nodes, links]
    turns,        \* the handleSend invocations: phase and captured conceptMap
    nTurns,       \* number of handleSend invocations started so far
    arrived,      \* the generateContent response whose continuation is about to run
    animatedNodes, \* useState animatedNodes of useForceLayout: [id, label, x, y, vx, vy]
    alphaRef,      \* alphaRef.current, in millionths
    frames,        \* the pending requests of requestAnimationFrame: the callback of
                   \* each, and whether requestRef.current holds its id
    mounted,       \* the view is mounted
    draggedNodeId, \* useState draggedNodeId
    dragPos,       \* useState dragPos
    effectProps,   \* the arguments of useForceLayout in the render whose effects ran last
    ticks,         \* number of frame callbacks run so far
    passes         \* the nodes of the last tick as its collision passes left them

graphVars == <<input, loading, conceptMap, turns, nTurns, arrived>>
layoutVars == <<animatedNodes, alphaRef, frames, mounted, draggedNodeId,
                dragPos, effectProps, ticks, passes>>
vars == <<graphVars, layoutVars>>

-----------------------------------------------------------------------------
(* Bounds of the model *)

MaxTurns == 2
MaxNewNodes == 2
MaxNewLinks == 1
MaxTicks == 2

-----------------------------------------------------------------------------
(* Labels and String.prototype.toLowerCase *)

Undefined == <<"undefined">>

LowerChar(c) ==
    CASE c = "A" -> "a"
      [] c = "B" -> "b"
      [] OTHER -> c

\* label.toLowerCase() of a string label
ToLower(label) == [i \in 1..Len(label) |-> LowerChar(label[i])]

\* the labels the language model may propose
Labels == {<<"a">>, <<"A">>, <<"b">>}
LinkLabels == {"x", "y"}

SeqsUpTo(S, n) == UNION {[1..k -> S] : k \in 0..n}

-----------------------------------------------------------------------------
(* The graph model: generateConceptMapUpdate, after the response is parsed *)

EmptyMap == [nodes |-> <<>>, links |-> <<>>]

\* the node pushed for a new label (id is the label; x, y are placeholders)
NewNode(label) == [id |-> label, label |-> label, x |-> 0, y |-> 0]

\* find comparing the labels as they are, without toLowerCase
RECURSIVE MutFindFromExact(_, _, _)
MutFindFromExact(nodes, label, i) ==
    IF i > Len(nodes) THEN 0
    ELSE IF nodes[i].label = label THEN i
    ELSE MutFindFromExact(nodes, label, i + 1)

\* Array.prototype.find with the predicate
\*   en.label.toLowerCase() === label.toLowerCase()
\* from index i on: the index of the first match, 0 when there is none, and
\* -1 when the predicate throws (toLowerCase of undefined).  The predicate
\* is evaluated only on the entries find visits.
RECURSIVE FindFrom(_, _, _)
FindFrom(nodes, label, i) ==
    IF i > Len(nodes) THEN 0
    ELSE IF nodes[i].label = Undefined \/ label = Undefined THEN -1
    ELSE IF ToLower(nodes[i].label) = ToLower(label) THEN i
    ELSE FindFrom(nodes, label, i + 1)

FindNode(nodes, label) == FindFrom(nodes, label, 1)

\* the merge with unshift in place of push: a new node goes to the front
RECURSIVE MutMergeNodesFront(_, _, _)
MutMergeNodesFront(newNodes, cands, i) ==
    IF i > Len(cands) THEN [ok |-> TRUE, nodes |-> newNodes]
    ELSE LET f == FindNode(newNodes, cands[i].label) IN
         IF f = -1 THEN [ok |-> FALSE, nodes |-> newNodes]
         ELSE IF f = 0
              THEN MutMergeNodesFront(<<NewNode(cands[i].label)>> \o newNodes,
                                      cands, i + 1)
              ELSE MutMergeNodesFront(newNodes, cands, i + 1)

\* data.newNodes.forEach: basic deduplication, candidates i.. of cands
RECURSIVE MergeNodes(_, _, _)
MergeNodes(newNodes, cands, i) ==
    IF i > Len(cands) THEN [ok |-> TRUE, nodes |-> newNodes]
    ELSE LET f == FindNode(newNodes, cands[i].label) IN
         IF f = -1 THEN [ok |-> FALSE, nodes |-> newNodes]
         ELSE IF f = 0
              THEN MergeNodes(Append(newNodes, NewNode(cands[i].label)), cands, i + 1)
              ELSE MergeNodes(newNodes, cands, i + 1)

\* the duplicate test with || in place of &&
MutHasLinkEither(links, safeSource, safeTarget) ==
    \E k \in 1..Len(links) :
        links[k].source = safeSource \/ links[k].target = safeTarget

\* newLinks.find(el => el.source === safeSource && el.target === safeTarget)
HasLink(links, safeSource, safeTarget) ==
    \E k \in 1..Len(links) :
        links[k].source = safeSource /\ links[k].target = safeTarget

\* the link stored as proposed, not under the matched nodes' casing
RECURSIVE MutMergeLinksRaw(_, _, _, _)
MutMergeLinksRaw(newNodes, newLinks, cands, i) ==
    IF i > Len(cands) THEN [ok |-> TRUE, links |-> newLinks]
    ELSE LET l == cands[i]
             sourceNode == FindNode(newNodes, l.source)
             targetNode == FindNode(newNodes, l.target)
         IN  IF sourceNode = -1 \/ targetNode = -1
             THEN [ok |-> FALSE, links |-> newLinks]
             ELSE IF sourceNode > 0 /\ targetNode > 0
                     /\ ~HasLink(newLinks, l.source, l.target)
                  THEN MutMergeLinksRaw(newNodes,
                                        Append(newLinks,
                                               [source |-> l.source,
                                                target |-> l.target,
                                                label |-> l.label]),
                                        cands, i + 1)
                  ELSE MutMergeLinksRaw(newNodes, newLinks, cands, i + 1)

\* the link kept when its source alone resolves
RECURSIVE MutMergeLinksSourceOnly(_, _, _, _)
MutMergeLinksSourceOnly(newNodes, newLinks, cands, i) ==
    IF i > Len(cands) THEN [ok |-> TRUE, links |-> newLinks]
    ELSE LET l == cands[i]
             sourceNode == FindNode(newNodes, l.source)
             targetNode == FindNode(newNodes, l.target)
             safeTarget == IF targetNode > 0 THEN newNodes[targetNode].label
                           ELSE l.target
         IN  IF sourceNode = -1 \/ targetNode = -1
             THEN [ok |-> FALSE, links |-> newLinks]
             ELSE IF sourceNode > 0
                     /\ ~HasLink(newLinks, newNodes[sourceNode].label, safeTarget)
                  THEN MutMergeLinksSourceOnly(newNodes,
                                               Append(newLinks,
                                                      [source |-> newNodes[sourceNode].label,
                                                       target |-> safeTarget,
                                                       label |-> l.label]),
                                               cands, i + 1)
                  ELSE MutMergeLinksSourceOnly(newNodes, newLinks, cands, i + 1)

\* data.newLinks.forEach: resolution against the merged nodes, candidates i..
RECURSIVE MergeLinks(_, _, _, _)
MergeLinks(newNodes, newLinks, cands, i) ==
    IF i > Len(cands) THEN [ok |-> TRUE, links |-> newLinks]
    ELSE LET l == cands[i]
             sourceNode == FindNode(newNodes, l.source)
             targetNode == FindNode(newNodes, l.target)
         IN  IF sourceNode = -1 \/ targetNode = -1
             THEN [ok |-> FALSE, links |-> newLinks]
             ELSE IF sourceNode > 0 /\ targetNode > 0
                     /\ ~HasLink(newLinks, newNodes[sourceNode].label,
                                           newNodes[targetNode].label)
                  THEN MergeLinks(newNodes,
                                  Append(newLinks,
                                         [source |-> newNodes[sourceNode].label,
                                          target |-> newNodes[targetNode].label,
                                          label |-> l.label]),
                                  cands, i + 1)
                  ELSE MergeLinks(newNodes, newLinks, cands, i + 1)

\* generateConceptMapUpdate from the parsed data on: ok = FALSE when it throws
\* (the returned promise rejects), else the returned map
GenerateConceptMapUpdate(currentMap, data) ==
    LET ns == MergeNodes(currentMap.nodes, data.newNodes, 1) IN
    IF ~ns.ok THEN [ok |-> FALSE, map |-> currentMap]
    ELSE LET ls == MergeLinks(ns.nodes, currentMap.links, data.newLinks, 1) IN
         IF ~ls.ok THEN [ok |-> FALSE, map |-> currentMap]
         ELSE [ok |-> TRUE, map |-> [nodes |-> ns.nodes, links |-> ls.links]]

-----------------------------------------------------------------------------
(* The language model's answers *)

NodeCands == {[label |-> l] : l \in Labels \cup {Undefined}}
LinkCands == {[source |-> s, target |-> t, label |-> b] :
                 s \in Labels \cup {Undefined}, t \in Labels \cup {Undefined},
                 b \in LinkLabels}

EmptyData == [newNodes |-> <<>>, newLinks |-> <<>>]

Proposals == {[newNodes |-> ns, newLinks |-> ls] :
                 ns \in SeqsUpTo(NodeCands, MaxNewNodes),
                 ls \in SeqsUpTo(LinkCands, MaxNewLinks)}

\* response.text: absent, text that is no JSON even after cleaning, or text
\* that parses (directly or after the code fences and the surrounding text
\* are stripped) to data
Responses == {[kind |-> "none", data |-> EmptyData],
              [kind |-> "garbage", data |-> EmptyData]}
             \cup {[kind |-> "json", data |-> d] : d \in Proposals}

\* parseJSON(text, { newNodes: [], newLinks: [] })
ParseJSON(resp, fallback) ==
    IF resp.kind = "none" THEN fallback
    ELSE IF resp.kind = "json" THEN resp.data
    ELSE fallback

-----------------------------------------------------------------------------------------------------------------------------------------------------
(* The conversation turn: handleSend *)

IdleTurn == [phase |-> "idle", map |-> EmptyMap]
DoneTurn == [phase |-> "done", map |-> EmptyMap]
TurnIds == 1..MaxTurns
NoTurn == 0
NoArrival == [turn |-> NoTurn, resp |-> [kind |-> "none", data |-> EmptyData]]

\* input.trim() is empty
IsBlank(txt) == txt \in {"", " "}
InputTexts == {"", " ", "q"}

-----------------------------------------------------------------------------
(* Numbers of the layout engine.  Coordinates and velocities are fixed     *)
(* point: one unit is 1/Unit pixel, and a quotient that is no whole number *)
(* of units is cut toward zero.  Distances are taken to a tenth of a pixel *)
(* so that their squares stay inside 32 bits.                              *)

Unit == 100

K == 250                 \* ideal distance
Padding == 30
BoundaryMargin == 60
MaxV == 8
NodeHeight == 44
MinNodeWidth == 120
CharWidth == 9
LabelPad == 30
SpawnRadius == 80
Passes == 3
DefaultWidth == 800
DefaultHeight == 600

Abs(a) == IF a < 0 THEN -a ELSE a

\* a / b cut toward zero
Quot(a, b) == IF a < 0 THEN -((-a) \div b) ELSE a \div b

\* a * num / den cut toward zero, without an intermediate product beyond 32 bits
Scale(a, num, den) ==
    LET m == Abs(a)
        r == (m \div den) * num + ((m % den) * num) \div den
    IN  IF a < 0 THEN -r ELSE r

Max(a, b) == IF a > b THEN a ELSE b
Min(a, b) == IF a < b THEN a ELSE b

\* Math.sqrt, cut to a whole number
RECURSIVE SqrtBetween(_, _, _)
SqrtBetween(n, lo, hi) ==
    IF lo >= hi THEN lo
    ELSE LET mid == (lo + hi + 1) \div 2 IN
         IF mid * mid <= n THEN SqrtBetween(n, mid, hi)
         ELSE SqrtBetween(n, lo, mid - 1)

Sqrt(n) == SqrtBetween(n, 0, 40000)

\* the distance of (dx, dy), in tenths of a pixel and at least one tenth,
\* and its square
DistSq10(dx, dy) ==
    Max(1, (Abs(dx) \div 10) * (Abs(dx) \div 10) + (Abs(dy) \div 10) * (Abs(dy) \div 10))
Dist10(dx, dy) == Sqrt(DistSq10(dx, dy))

\* dx / dist, in thousandths
Dir(d, dist10) == Quot(d * 100, dist10)

\* getNodeDimensions(label).width, in pixels
NodeWidth(label) == Max(MinNodeWidth, Len(label) * CharWidth + LabelPad)

-----------------------------------------------------------------------------
(* One tick of the simulation: the updater simulate passes to              *)
(* setAnimatedNodes.  draggedId and pointer are the draggedNodeId and     *)
(* dragPos of the render that created the callback.                    *)

NoId == <<"null">>
NoPos == [set |-> FALSE, x |-> 0, y |-> 0]
Pos(x, y) == [set |-> TRUE, x |-> x * Unit, y |-> y * Unit]

\* the index pairs (i, j), i < j, in the order of the nested loops
PairsOf(n) ==
    LET P == {<<i, j>> : i \in 1..n, j \in 1..n}
        Q == {p \in P : p[1] < p[2]}
        rank(p) == (p[1] - 1) * n + p[2]
    IN  [k \in 1..Cardinality(Q) |->
            CHOOSE p \in Q : Cardinality({q \in Q : rank(q) < rank(p)}) = k - 1]

\* what a division by zero gives: NaN or an infinity, beyond every number
\* a tick computes
NotFinite == 1000000000

\* Repel without the fallback for a zero distance: (0 / 0) * (k * k * 8 / 0)
MutRepelNoFallback(u, v) ==
    LET dx == u.x - v.x
        dy == u.y - v.y
    IN  IF dx = 0 /\ dy = 0 THEN <<NotFinite, NotFinite>>
        ELSE LET d2 == DistSq10(dx, dy)
                 d == Dist10(dx, dy)
                 \* force * 0.05 = c / distSq units per thousandth of direction,
                 \* for distSq in tenths of a pixel squared
                 c == (K * K * 8 * 5 * Unit) \div 1000
             IN  <<Quot(Dir(dx, d) * c, d2), Quot(Dir(dy, d) * c, d2)>>

\* the velocity change (x and y) the repulsion of v gives u: fx * 0.05, fy * 0.05
\* with force = k * k * 8 / distSq; a zero distance counts as one pixel
Repel(u, v) ==
    LET dx == u.x - v.x
        dy == u.y - v.y
    IN  IF dx = 0 /\ dy = 0 THEN <<0, 0>>
        ELSE LET d2 == DistSq10(dx, dy)
                 d == Dist10(dx, dy)
                 \* force * 0.05 = c / distSq units per thousandth of direction,
                 \* for distSq in tenths of a pixel squared
                 c == (K * K * 8 * 5 * Unit) \div 1000
             IN  <<Quot(Dir(dx, d) * c, d2), Quot(Dir(dy, d) * c, d2)>>

AddV(n, dvx, dvy) == [n EXCEPT !.vx = @ + dvx, !.vy = @ + dvy]

\* 1. repulsion over the pairs k.. of pairs
RECURSIVE Repulsion(_, _, _, _)
Repulsion(nodes, pairs, k, draggedId) ==
    IF k > Len(pairs) THEN nodes
    ELSE LET i == pairs[k][1]
             j == pairs[k][2]
             f == Repel(nodes[i], nodes[j])
             nu == IF nodes[i].id # draggedId
                   THEN AddV(nodes[i], f[1], f[2]) ELSE nodes[i]
             nv == IF nodes[j].id # draggedId
                   THEN AddV(nodes[j], -f[1], -f[2]) ELSE nodes[j]
         IN  Repulsion([nodes EXCEPT ![i] = nu, ![j] = nv], pairs, k + 1, draggedId)

\* centering force: (center - position) * 0.005 (it changes velocities only,
\* as the repulsion does, so it is applied after the last pair)
Centering(nodes, width, height, draggedId) ==
    [i \in 1..Len(nodes) |->
        IF nodes[i].id # draggedId
        THEN AddV(nodes[i],
                  Scale((width * Unit) \div 2 - nodes[i].x, 5, 1000),
                  Scale((height * Unit) \div 2 - nodes[i].y, 5, 1000))
        ELSE nodes[i]]

\* newNodes.find(n => n.label === label): the index, 0 when there is none
RECURSIVE FindLabelFrom(_, _, _)
FindLabelFrom(nodes, label, i) ==
    IF i > Len(nodes) THEN 0
    ELSE IF nodes[i].label = label THEN i
    ELSE FindLabelFrom(nodes, label, i + 1)

FindLabel(nodes, label) == FindLabelFrom(nodes, label, 1)

\* the attraction with a link's missing end taken to be the first node
RECURSIVE MutAttractionFirstNode(_, _, _, _)
MutAttractionFirstNode(nodes, links, k, draggedId) ==
    IF k > Len(links) THEN nodes
    ELSE LET sf == FindLabel(nodes, links[k].source)
             tf == FindLabel(nodes, links[k].target)
             si == IF sf = 0 THEN 1 ELSE sf
             ti == IF tf = 0 THEN 1 ELSE tf
         IN  IF nodes = <<>> THEN nodes
             ELSE LET dx == nodes[ti].x - nodes[si].x
                      dy == nodes[ti].y - nodes[si].y
                      zero == dx = 0 /\ dy = 0
                      d == IF zero THEN 10 ELSE Dist10(dx, dy)
                      force == Scale(d * (Unit \div 10) - K * Unit, 3, 100)
                      fx == Quot(Dir(dx, d) * force, 1000)
                      fy == Quot(Dir(dy, d) * force, 1000)
                      n1 == IF nodes[si].id # draggedId
                            THEN [nodes EXCEPT ![si] = AddV(@, fx, fy)] ELSE nodes
                      n2 == IF n1[ti].id # draggedId
                            THEN [n1 EXCEPT ![ti] = AddV(@, -fx, -fy)] ELSE n1
                  IN  MutAttractionFirstNode(n2, links, k + 1, draggedId)

\* 2. attraction along the links k.. of links: force = (dist - k) * 0.03
RECURSIVE Attraction(_, _, _, _)
Attraction(nodes, links, k, draggedId) ==
    IF k > Len(links) THEN nodes
    ELSE LET si == FindLabel(nodes, links[k].source)
             ti == FindLabel(nodes, links[k].target)
         IN  IF si = 0 \/ ti = 0 THEN Attraction(nodes, links, k + 1, draggedId)
             ELSE LET dx == nodes[ti].x - nodes[si].x
                      dy == nodes[ti].y - nodes[si].y
                      zero == dx = 0 /\ dy = 0
                      d == IF zero THEN 10 ELSE Dist10(dx, dy)
                      force == Scale(d * (Unit \div 10) - K * Unit, 3, 100)
                      fx == Quot(Dir(dx, d) * force, 1000)
                      fy == Quot(Dir(dy, d) * force, 1000)
                      n1 == IF nodes[si].id # draggedId
                            THEN [nodes EXCEPT ![si] = AddV(@, fx, fy)] ELSE nodes
                      n2 == IF n1[ti].id # draggedId
                            THEN [n1 EXCEPT ![ti] = AddV(@, -fx, -fy)] ELSE n1
                  IN  Attraction(n2, links, k + 1, draggedId)

\* CollidePair with push = overlap / 4
MutCollidePairQuarter(nodes, i, j, draggedId) ==
    LET u == nodes[i]
        v == nodes[j]
        dx == u.x - v.x
        dy == u.y - v.y
        minW == ((NodeWidth(u.label) + NodeWidth(v.label)) * Unit) \div 2 + Padding * Unit
        minH == ((NodeHeight + NodeHeight) * Unit) \div 2 + Padding * Unit
        overlapX == minW - Abs(dx)
        overlapY == minH - Abs(dy)
    IN  IF Abs(dx) < minW /\ Abs(dy) < minH
        THEN IF overlapX < overlapY
             THEN LET sign == IF dx > 0 THEN 1 ELSE -1
                  IN  [nodes EXCEPT ![i].x = @ + sign * (overlapX \div 4),
                                    ![j].x = @ - sign * (overlapX \div 4)]
             ELSE LET sign == IF dy > 0 THEN 1 ELSE -1
                  IN  [nodes EXCEPT ![i].y = @ + sign * (overlapY \div 4),
                                    ![j].y = @ - sign * (overlapY \div 4)]
        ELSE nodes

\* CollidePair pushing along the axis of the greater overlap
MutCollidePairWiderAxis(nodes, i, j, draggedId) ==
    LET u == nodes[i]
        v == nodes[j]
        dx == u.x - v.x
        dy == u.y - v.y
        minW == ((NodeWidth(u.label) + NodeWidth(v.label)) * Unit) \div 2 + Padding * Unit
        minH == ((NodeHeight + NodeHeight) * Unit) \div 2 + Padding * Unit
        overlapX == minW - Abs(dx)
        overlapY == minH - Abs(dy)
        pushU(o) == o - o \div 2
        pushV(o) == o \div 2
    IN  IF Abs(dx) < minW /\ Abs(dy) < minH
        THEN IF overlapX > overlapY
             THEN LET sign == IF dx > 0 THEN 1 ELSE -1
                      ux == IF u.id # draggedId THEN u.x + sign * pushU(overlapX) ELSE u.x
                      vx == IF v.id # draggedId THEN v.x - sign * pushV(overlapX) ELSE v.x
                  IN  [nodes EXCEPT ![i] = [u EXCEPT !.x = ux, !.vx = Quot(u.vx, 10)],
                                    ![j] = [v EXCEPT !.x = vx, !.vx = Quot(v.vx, 10)]]
             ELSE LET sign == IF dy > 0 THEN 1 ELSE -1
                      uy == IF u.id # draggedId THEN u.y + sign * pushU(overlapY) ELSE u.y
                      vy == IF v.id # draggedId THEN v.y - sign * pushV(overlapY) ELSE v.y
                  IN  [nodes EXCEPT ![i] = [u EXCEPT !.y = uy, !.vy = Quot(u.vy, 10)],
                                    ![j] = [v EXCEPT !.y = vy, !.vy = Quot(v.vy, 10)]]
        ELSE nodes

\* the pair pushed apart without the test for the dragged node
MutCollidePairDragged(nodes, i, j, draggedId) ==
    LET u == nodes[i]
        v == nodes[j]
        dx == u.x - v.x
        dy == u.y - v.y
        minW == ((NodeWidth(u.label) + NodeWidth(v.label)) * Unit) \div 2 + Padding * Unit
        minH == ((NodeHeight + NodeHeight) * Unit) \div 2 + Padding * Unit
        overlapX == minW - Abs(dx)
        overlapY == minH - Abs(dy)
    IN  IF Abs(dx) < minW /\ Abs(dy) < minH
        THEN IF overlapX < overlapY
             THEN LET sign == IF dx > 0 THEN 1 ELSE -1
                  IN  [nodes EXCEPT
                         ![i] = [u EXCEPT !.x = @ + sign * (overlapX - overlapX \div 2),
                                          !.vx = Quot(u.vx, 10)],
                         ![j] = [v EXCEPT !.x = @ - sign * (overlapX \div 2),
                                          !.vx = Quot(v.vx, 10)]]
             ELSE LET sign == IF dy > 0 THEN 1 ELSE -1
                  IN  [nodes EXCEPT
                         ![i] = [u EXCEPT !.y = @ + sign * (overlapY - overlapY \div 2),
                                          !.vy = Quot(u.vy, 10)],
                         ![j] = [v EXCEPT !.y = @ - sign * (overlapY \div 2),
                                          !.vy = Quot(v.vy, 10)]]
        ELSE nodes

\* one pair of one collision pass.  push = overlap / 2: of an odd number of
\* units u takes the greater half and v the smaller, so that the two pushes
\* add up to the overlap
CollidePair(nodes, i, j, draggedId) ==
    LET u == nodes[i]
        v == nodes[j]
        dx == u.x - v.x
        dy == u.y - v.y
        minW == ((NodeWidth(u.label) + NodeWidth(v.label)) * Unit) \div 2 + Padding * Unit
        minH == ((NodeHeight + NodeHeight) * Unit) \div 2 + Padding * Unit
        overlapX == minW - Abs(dx)
        overlapY == minH - Abs(dy)
        pushU(o) == o - o \div 2
        pushV(o) == o \div 2
    IN  IF Abs(dx) < minW /\ Abs(dy) < minH
        THEN IF overlapX < overlapY
             THEN LET sign == IF dx > 0 THEN 1 ELSE -1
                      ux == IF u.id # draggedId THEN u.x + sign * pushU(overlapX) ELSE u.x
                      vx == IF v.id # draggedId THEN v.x - sign * pushV(overlapX) ELSE v.x
                  IN  [nodes EXCEPT ![i] = [u EXCEPT !.x = ux, !.vx = Quot(u.vx, 10)],
                                    ![j] = [v EXCEPT !.x = vx, !.vx = Quot(v.vx, 10)]]
             ELSE LET sign == IF dy > 0 THEN 1 ELSE -1
                      uy == IF u.id # draggedId THEN u.y + sign * pushU(overlapY) ELSE u.y
                      vy == IF v.id # draggedId THEN v.y - sign * pushV(overlapY) ELSE v.y
                  IN  [nodes EXCEPT ![i] = [u EXCEPT !.y = uy, !.vy = Quot(u.vy, 10)],
                                    ![j] = [v EXCEPT !.y = vy, !.vy = Quot(v.vy, 10)]]
        ELSE nodes

RECURSIVE CollisionPass(_, _, _, _)
CollisionPass(nodes, pairs, k, draggedId) ==
    IF k > Len(pairs) THEN nodes
    ELSE CollisionPass(CollidePair(nodes, pairs[k][1], pairs[k][2], draggedId),
                       pairs, k + 1, draggedId)

\* 3. collision resolution: the passes pass..Passes
RECURSIVE Collision(_, _, _)
Collision(nodes, pass, draggedId) ==
    IF pass > Passes THEN nodes
    ELSE Collision(CollisionPass(nodes, PairsOf(Len(nodes)), 1, draggedId),
                   pass + 1, draggedId)

\* Math.max(lo, Math.min(hi, a))
Clamp(lo, hi, a) == Max(lo, Min(hi, a))

\* Damp with the speed limit applied before the damping
MutDampLimitFirst(v) ==
    LET c == Clamp(-(MaxV * Unit), MaxV * Unit, v)
        d == Scale(c, 65, 100)
    IN  IF Abs(d) < (5 * Unit) \div 100 THEN 0 ELSE d

\* damping, speed limit and the stop of small movements of one velocity
Damp(v) ==
    LET d == Scale(v, 65, 100)
        c == Clamp(-(MaxV * Unit), MaxV * Unit, d)
    IN  IF Abs(c) < (5 * Unit) \div 100 THEN 0 ELSE c

\* Integrate with the boundary clamp applied to the dragged node as well
MutIntegrateClamped(n, width, height, draggedId, pointer) ==
    LET vx == IF n.id = draggedId /\ pointer.set THEN 0 ELSE Damp(n.vx)
        vy == IF n.id = draggedId /\ pointer.set THEN 0 ELSE Damp(n.vy)
        x == IF n.id = draggedId /\ pointer.set THEN pointer.x ELSE n.x + vx
        y == IF n.id = draggedId /\ pointer.set THEN pointer.y ELSE n.y + vy
    IN  [n EXCEPT !.vx = vx, !.vy = vy,
           !.x = Clamp(BoundaryMargin * Unit, (width - BoundaryMargin) * Unit, x),
           !.y = Clamp(BoundaryMargin * Unit, (height - BoundaryMargin) * Unit, y)]

\* 4. position update of one node
Integrate(n, width, height, draggedId, pointer) ==
    IF n.id = draggedId /\ pointer.set
    THEN [n EXCEPT !.x = pointer.x, !.y = pointer.y, !.vx = 0, !.vy = 0]
    ELSE LET vx == Damp(n.vx)
             vy == Damp(n.vy)
         IN  [n EXCEPT !.vx = vx, !.vy = vy,
                !.x = Clamp(BoundaryMargin * Unit, (width - BoundaryMargin) * Unit, n.x + vx),
                !.y = Clamp(BoundaryMargin * Unit, (height - BoundaryMargin) * Unit, n.y + vy)]

\* the nodes after the forces (steps 1 and 2) and after the collision passes
Forces(prevNodes, links, width, height, draggedId) ==
    Attraction(Centering(Repulsion(prevNodes, PairsOf(Len(prevNodes)), 1, draggedId),
                         width, height, draggedId),
               links, 1, draggedId)

Collided(prevNodes, links, width, height, draggedId) ==
    Collision(Forces(prevNodes, links, width, height, draggedId), 1, draggedId)

\* a simulate that returns the dragged node last, after the others
MutSimulateDraggedLast(prevNodes, links, width, height, draggedId, pointer) ==
    LET newNodes == Collided(prevNodes, links, width, height, draggedId)
        moved == [i \in 1..Len(newNodes) |->
                     Integrate(newNodes[i], width, height, draggedId, pointer)]
    IN  SelectSeq(moved, LAMBDA n : n.id # draggedId)
            \o SelectSeq(moved, LAMBDA n : n.id = draggedId)

\* the updater of simulate
Simulate(prevNodes, links, width, height, draggedId, pointer) ==
    LET newNodes == Collided(prevNodes, links, width, height, draggedId)
    IN  [i \in 1..Len(newNodes) |->
            Integrate(newNodes[i], width, height, draggedId, pointer)]

-----------------------------------------------------------------------------
(* The component: its renders, effects, frame callbacks and handlers.      *)
(* A render follows every state update at once; the effects of a render    *)
(* run later, and a frame callback may run in between.                     *)

AlphaOne == 1000000      \* alphaRef 1
AlphaMin == 10000        \* 0.01

\* clientWidth and clientHeight of the container element, and pointer
\* positions inside it
Container == [width |-> 500, height |-> 400]
Pointers == {Pos(10, 10), Pos(450, 200)}

\* values of (Math.random() - 0.5) * 100
Jitters == {-50 * Unit, 0}

\* values of (Math.cos(angle) * 80, Math.sin(angle) * 80)
RingCoords == {-48 * Unit, 0, 64 * Unit, SpawnRadius * Unit}
RingOffsets ==
    {o \in RingCoords \X RingCoords :
        o[1] * o[1] + o[2] * o[2] = (SpawnRadius * Unit) * (SpawnRadius * Unit)}

\* the arguments of useForceLayout in a render of the present state
Props ==
    [nodes |-> conceptMap.nodes,
     links |-> conceptMap.links,
     width |-> IF Container.width = 0 THEN DefaultWidth ELSE Container.width,
     height |-> IF Container.height = 0 THEN DefaultHeight ELSE Container.height,
     draggedNodeId |-> draggedNodeId,
     dragPos |-> dragPos]

\* those of the first render: containerRef.current is still null
FirstProps ==
    [nodes |-> <<>>, links |-> <<>>, width |-> DefaultWidth, height |-> DefaultHeight,
     draggedNodeId |-> NoId, dragPos |-> NoPos]

\* next.find(en => en.id === id): the index, 0 when there is none
RECURSIVE FindIdFrom(_, _, _)
FindIdFrom(nodes, id, i) ==
    IF i > Len(nodes) THEN 0
    ELSE IF nodes[i].id = id THEN i
    ELSE FindIdFrom(nodes, id, i + 1)

\* links.find(l => l.target === label || l.source === label), from link k on
RECURSIVE ConnectedLink(_, _, _)
ConnectedLink(links, label, k) ==
    IF k > Len(links) THEN 0
    ELSE IF links[k].target = label \/ links[k].source = label THEN k
    ELSE ConnectedLink(links, label, k + 1)

\* the points (initX, initY) a new node n may get
SpawnPoints(next, n, links, width, height) ==
    LET c == ConnectedLink(links, n.label, 1)
        cx == (width * Unit) \div 2
        cy == (height * Unit) \div 2
    IN  IF c # 0
        THEN LET peerLabel == IF links[c].source = n.label
                              THEN links[c].target ELSE links[c].source
                 peer == FindLabel(next, peerLabel)
             IN  IF peer # 0
                 THEN {<<next[peer].x + o[1], next[peer].y + o[2]>> : o \in RingOffsets}
                 ELSE {<<cx, cy>>}
        ELSE {<<cx + jx, cy + jy>> : jx \in Jitters, jy \in Jitters}

\* a sync that puts the nodes it finds in the layout to rest
RECURSIVE MutSyncFromStill(_, _, _, _, _, _)
MutSyncFromStill(next, nodes, i, links, width, height) ==
    IF i > Len(nodes) THEN {next}
    ELSE LET n == nodes[i]
             existing == FindIdFrom(next, n.id, 1)
         IN  IF existing # 0
             THEN MutSyncFromStill([next EXCEPT ![existing].label = n.label,
                                                ![existing].vx = 0, ![existing].vy = 0],
                                   nodes, i + 1, links, width, height)
             ELSE UNION {MutSyncFromStill(Append(next, [id |-> n.id, label |-> n.label,
                                                        x |-> p[1], y |-> p[2],
                                                        vx |-> 0, vy |-> 0]),
                                          nodes, i + 1, links, width, height)
                         : p \in SpawnPoints(next, n, links, width, height)}

\* the updater of the first effect from node i on: the lists it may return
RECURSIVE SyncFrom(_, _, _, _, _, _)
SyncFrom(next, nodes, i, links, width, height) ==
    IF i > Len(nodes) THEN {next}
    ELSE LET n == nodes[i]
             existing == FindIdFrom(next, n.id, 1)
         IN  IF existing # 0
             THEN SyncFrom(IF next[existing].label # n.label
                           THEN [next EXCEPT ![existing].label = n.label] ELSE next,
                           nodes, i + 1, links, width, height)
             ELSE UNION {SyncFrom(Append(next, [id |-> n.id, label |-> n.label,
                                                x |-> p[1], y |-> p[2],
                                                vx |-> 0, vy |-> 0]),
                                  nodes, i + 1, links, width, height)
                         : p \in SpawnPoints(next, n, links, width, height)}

\* what a simulate callback closes over: the dependencies of its useCallback
SimOf(props) ==
    [links |-> props.links, width |-> props.width, height |-> props.height,
     draggedNodeId |-> props.draggedNodeId, dragPos |-> props.dragPos]

\* requestRef.current = requestAnimationFrame(simulate): the new request
\* is the one requestRef.current now names
RequestAnimationFrame(fs, sim) ==
    {[f EXCEPT !.current = FALSE] : f \in fs} \cup {[sim |-> sim, current |-> TRUE]}

\* a cleanup that cancels nothing
MutCancelNothing(fs) == fs

\* a cleanup that cancels the request of the effect run itself, which is
\* pending only as long as no frame callback has run
MutCancelFirstRequest(fs) == IF ticks > 0 THEN fs ELSE {f \in fs : ~f.current}

\* cancelAnimationFrame(requestRef.current); a request that has run is
\* no longer pending, and cancelling it does nothing
CancelAnimationFrame(fs) == {f \in fs : ~f.current}

\* a decay that does not stop at 0.01
MutAlphaTickNoFloor(a) == Scale(a, 98, 100)

\* if (alphaRef.current > 0.01) alphaRef.current *= 0.98
AlphaTick(a) == IF a > AlphaMin THEN Scale(a, 98, 100) ELSE a

\* a simulation that stops requesting frames once it has cooled down
MutRequestWhileWarm(fs, sim, a) ==
    IF a > AlphaMin THEN RequestAnimationFrame(fs, sim) ELSE fs

\* the end of simulate: both branches of the test of alphaRef.current
\* request the next frame
RequestNext(fs, sim, a) ==
    IF a > AlphaMin THEN RequestAnimationFrame(fs, sim)
                    ELSE RequestAnimationFrame(fs, sim)

\* getIntersection without the buffer of 4 around the node
MutGetIntersectionNoBuffer(from, target, targetWidth, targetHeight) ==
    LET dx == target.x - from.x
        dy == target.y - from.y
        w == targetWidth * Unit
        h == targetHeight * Unit
    IN  IF Abs(dx) < Unit /\ Abs(dy) < Unit THEN [x |-> target.x, y |-> target.y]
        ELSE IF Abs(dx) * h > Abs(dy) * w
             THEN LET ix == IF dx > 0 THEN -(w \div 2) ELSE w \div 2
                  IN  [x |-> target.x + ix, y |-> target.y + Quot(dy * ix, dx)]
             ELSE LET iy == IF dy > 0 THEN -(h \div 2) ELSE h \div 2
                  IN  [x |-> target.x + (IF dx # 0 THEN Quot(iy * dx, dy) ELSE 0),
                       y |-> target.y + iy]

\* getIntersection: the point where the line from the centre of from to
\* the centre of target meets the rectangle around target.  m * ix is
\* dy * ix / dx and iy / m is iy * dx / dy
GetIntersection(from, target, targetWidth, targetHeight) ==
    LET dx == target.x - from.x
        dy == target.y - from.y
        w == (targetWidth + 4) * Unit
        h == (targetHeight + 4) * Unit
    IN  IF Abs(dx) < Unit /\ Abs(dy) < Unit THEN [x |-> target.x, y |-> target.y]
        ELSE IF Abs(dx) * h > Abs(dy) * w
             THEN LET ix == IF dx > 0 THEN -(w \div 2) ELSE w \div 2
                  IN  [x |-> target.x + ix, y |-> target.y + Quot(dy * ix, dx)]
             ELSE LET iy == IF dy > 0 THEN -(h \div 2) ELSE h \div 2
                  IN  [x |-> target.x + (IF dx # 0 THEN Quot(iy * dx, dy) ELSE 0),
                       y |-> target.y + iy]

\* the links the view draws: start and end of the line of link k, or no
\* line when an end of the link is not in the layout
Drawn(k) ==
    FindLabel(animatedNodes, conceptMap.links[k].source) # 0
        /\ FindLabel(animatedNodes, conceptMap.links[k].target) # 0
LinkSource(k) == animatedNodes[FindLabel(animatedNodes, conceptMap.links[k].source)]
LinkTarget(k) == animatedNodes[FindLabel(animatedNodes, conceptMap.links[k].target)]
LinkStart(k) ==
    GetIntersection(LinkTarget(k), LinkSource(k), NodeWidth(LinkSource(k).label), NodeHeight)
LinkEnd(k) ==
    GetIntersection(LinkSource(k), LinkTarget(k), NodeWidth(LinkTarget(k).label), NodeHeight)

Init ==
    /\ input = ""
    /\ loading = FALSE
    /\ conceptMap = EmptyMap
    /\ turns = [t \in TurnIds |-> IdleTurn]
    /\ nTurns = 0
    /\ arrived = NoArrival
    /\ animatedNodes = <<>>
    /\ alphaRef = AlphaOne
    /\ frames = RequestAnimationFrame({}, SimOf(FirstProps))
    /\ mounted = TRUE
    /\ draggedNodeId = NoId
    /\ dragPos = NoPos
    /\ effectProps = FirstProps
    /\ ticks = 0
    /\ passes = <<>>

\* No event handler runs between the arrival of a response and the
\* continuation it resumes (one task and its microtasks run to completion).
Quiet == arrived.turn = NoTurn

\* onChange of the text field
TypeInput(txt) ==
    /\ Quiet
    /\ input # txt
    /\ input' = txt
    /\ UNCHANGED <<loading, conceptMap, turns, nTurns, arrived>>
    /\ UNCHANGED layoutVars

\* handleSend up to its first await: the conceptMap of the render that
\* created the handler is captured
HandleSendStart ==
    /\ Quiet
    /\ nTurns < MaxTurns
    /\ ~IsBlank(input)
    /\ nTurns' = nTurns + 1
    /\ turns' = [turns EXCEPT ![nTurns + 1] = [phase |-> "chat", map |-> conceptMap]]
    /\ input' = ""
    /\ loading' = TRUE
    /\ UNCHANGED <<conceptMap, arrived>>
    /\ UNCHANGED layoutVars

\* onKeyDown: Enter calls handleSend whatever the loading flag
PressEnter == HandleSendStart

\* the send button is disabled while loading
ClickSend == ~loading /\ HandleSendStart

\* sendTextMessage resolves: the bot message is appended and
\* generateConceptMapUpdate is called with the captured conceptMap
ChatResolved(t) ==
    /\ Quiet
    /\ turns[t].phase = "chat"
    /\ turns' = [turns EXCEPT ![t].phase = "map"]
    /\ UNCHANGED <<input, loading, conceptMap, nTurns, arrived>>
    /\ UNCHANGED layoutVars

\* sendTextMessage rejects: catch, finally setLoading(false)
ChatRejected(t) ==
    /\ Quiet
    /\ turns[t].phase = "chat"
    /\ turns' = [turns EXCEPT ![t] = DoneTurn]
    /\ loading' = FALSE
    /\ UNCHANGED <<input, conceptMap, nTurns, arrived>>
    /\ UNCHANGED layoutVars

\* ai.models.generateContent resolves with a response
MapResponse(t, resp) ==
    /\ Quiet
    /\ turns[t].phase = "map"
    /\ arrived' = [turn |-> t, resp |-> resp]
    /\ UNCHANGED <<input, loading, conceptMap, turns, nTurns>>
    /\ UNCHANGED layoutVars

\* ai.models.generateContent rejects: catch, finally setLoading(false)
MapRejected(t) ==
    /\ Quiet
    /\ turns[t].phase = "map"
    /\ turns' = [turns EXCEPT ![t] = DoneTurn]
    /\ loading' = FALSE
    /\ UNCHANGED <<input, conceptMap, nTurns, arrived>>
    /\ UNCHANGED layoutVars

\* the rest of generateConceptMapUpdate and of handleSend: parse, merge,
\* setConceptMap(updatedMap) unless the merge threw, finally setLoading(false)
MapContinue ==
    /\ arrived.turn # NoTurn
    /\ LET data == ParseJSON(arrived.resp, EmptyData)
           r == GenerateConceptMapUpdate(turns[arrived.turn].map, data)
       IN  conceptMap' = IF r.ok THEN r.map ELSE conceptMap
    /\ turns' = [turns EXCEPT ![arrived.turn] = DoneTurn]
    /\ loading' = FALSE
    /\ arrived' = NoArrival
    /\ UNCHANGED <<input, nTurns>>
    /\ UNCHANGED layoutVars

\* a whole turn with no other event in between: handleSend, both awaits
\* resolved, setConceptMap(updatedMap)
TurnCompletes(resp) ==
    /\ mounted
    /\ Quiet
    /\ nTurns < MaxTurns
    /\ LET r == GenerateConceptMapUpdate(conceptMap, ParseJSON(resp, EmptyData))
       IN  conceptMap' = IF r.ok THEN r.map ELSE conceptMap
    /\ nTurns' = nTurns + 1
    /\ turns' = [turns EXCEPT ![nTurns + 1] = DoneTurn]
    /\ UNCHANGED <<input, loading, arrived>>
    /\ UNCHANGED layoutVars

\* the effects of the latest render: the first effect when nodes, links,
\* width or height changed, then the cleanup and re-run of the second
\* when simulate was re-created
FlushEffects ==
    /\ mounted
    /\ Props # effectProps
    /\ LET sync == <<Props.nodes, Props.links, Props.width, Props.height>>
                   # <<effectProps.nodes, effectProps.links,
                       effectProps.width, effectProps.height>>
           created == SimOf(Props) # SimOf(effectProps)
       IN  /\ animatedNodes' \in
                 IF sync THEN SyncFrom(animatedNodes, Props.nodes, 1, Props.links,
                                       Props.width, Props.height)
                 ELSE {animatedNodes}
           /\ alphaRef' = IF Len(animatedNodes') > Len(animatedNodes)
                          THEN AlphaOne ELSE alphaRef
           /\ frames' = IF created
                        THEN RequestAnimationFrame(CancelAnimationFrame(frames),
                                                   SimOf(Props))
                        ELSE frames
    /\ effectProps' = Props
    /\ UNCHANGED <<mounted, draggedNodeId, dragPos, ticks, passes>>
    /\ UNCHANGED graphVars

\* the frame callback of the pending request f: simulate, as its render
\* created it, which requests the next frame for itself
RunFrame(f) ==
    /\ f \in frames
    /\ animatedNodes' = Simulate(animatedNodes, f.sim.links, f.sim.width, f.sim.height,
                                 f.sim.draggedNodeId, f.sim.dragPos)
    /\ passes' = Collided(animatedNodes, f.sim.links, f.sim.width, f.sim.height,
                          f.sim.draggedNodeId)
    /\ alphaRef' = AlphaTick(alphaRef)
    /\ frames' = RequestNext(frames \ {f}, f.sim, alphaRef)
    /\ ticks' = ticks + 1
    /\ UNCHANGED <<mounted, draggedNodeId, dragPos, effectProps>>
    /\ UNCHANGED graphVars

\* a frame of the display: a pending callback runs
Tick == ticks < MaxTicks /\ \E f \in frames : RunFrame(f)

\* the view is torn down: the cleanup of the second effect
Unmount ==
    /\ mounted
    /\ mounted' = FALSE
    /\ frames' = CancelAnimationFrame(frames)
    /\ UNCHANGED <<animatedNodes, alphaRef, draggedNodeId, dragPos,
                   effectProps, ticks, passes>>
    /\ UNCHANGED graphVars

\* onMouseDown of the i-th drawn node
HandleMouseDown(i, p) ==
    /\ mounted
    /\ i \in 1..Len(animatedNodes)
    /\ draggedNodeId' = animatedNodes[i].id
    /\ dragPos' = p
    /\ UNCHANGED <<animatedNodes, alphaRef, frames, mounted, effectProps,
                   ticks, passes>>
    /\ UNCHANGED graphVars

\* onMouseMove of the container
HandleMouseMove(p) ==
    /\ mounted
    /\ draggedNodeId # NoId
    /\ dragPos' = p
    /\ UNCHANGED <<animatedNodes, alphaRef, frames, mounted, draggedNodeId,
                   effectProps, ticks, passes>>
    /\ UNCHANGED graphVars

\* onMouseUp and onMouseLeave of the container
HandleMouseUp ==
    /\ mounted
    /\ (draggedNodeId # NoId \/ dragPos # NoPos)
    /\ draggedNodeId' = NoId
    /\ dragPos' = NoPos
    /\ UNCHANGED <<animatedNodes, alphaRef, frames, mounted, effectProps,
                   ticks, passes>>
    /\ UNCHANGED graphVars

Next ==
    \/ \E txt \in InputTexts : TypeInput(txt)
    \/ PressEnter
    \/ ClickSend
    \/ \E t \in TurnIds : ChatResolved(t)
    \/ \E t \in TurnIds : ChatRejected(t)
    \/ \E t \in TurnIds, resp \in Responses : MapResponse(t, resp)
    \/ \E t \in TurnIds : MapRejected(t)
    \/ MapContinue

Spec == Init /\ [][Next]_vars

\* proposals for the layout: new nodes a, b and links a -> b, b -> b
LayoutNode(l) == [label |-> l]
LayoutLink(s, t) == [source |-> s, target |-> t, label |-> "x"]
LayoutProposals ==
    {[newNodes |-> <<LayoutNode(<<"a">>)>>, newLinks |-> <<>>],
     [newNodes |-> <<LayoutNode(<<"a">>), LayoutNode(<<"b">>)>>, newLinks |-> <<>>],
     [newNodes |-> <<LayoutNode(<<"b">>)>>,
      newLinks |-> <<LayoutLink(<<"a">>, <<"b">>)>>],
     [newNodes |-> <<LayoutNode(<<"a">>), LayoutNode(<<"b">>)>>,
      newLinks |-> <<LayoutLink(<<"a">>, <<"b">>)>>],
     [newNodes |-> <<LayoutNode(<<"b">>)>>,
      newLinks |-> <<LayoutLink(<<"b">>, <<"b">>), LayoutLink(<<"a">>, <<"b">>)>>]}
LayoutResponses == {[kind |-> "json", data |-> d] : d \in LayoutProposals}

NextLayout ==
    \/ \E resp \in LayoutResponses : TurnCompletes(resp)
    \/ FlushEffects
    \/ Tick
    \/ \E i \in 1..MaxNewNodes * MaxTurns, p \in Pointers : HandleMouseDown(i, p)
    \/ \E p \in Pointers : HandleMouseMove(p)
    \/ HandleMouseUp

SpecLayout == Init /\ [][NextLayout]_vars

\* The view from mounting to its teardown.  Before the first event the
\* frame callbacks have run on the empty layout up to MaxIdleTicks times;
\* a requested frame is run in the end unless it is cancelled.
MaxIdleTicks == 230

\* alpha after n further ticks
RECURSIVE AlphaTicks(_, _)
AlphaTicks(a, n) ==
    IF n = 0 THEN a
    ELSE IF n = 1 THEN AlphaTick(a)
    ELSE LET half == AlphaTicks(a, n \div 2)
         IN  IF half > AlphaMin THEN AlphaTicks(half, n - n \div 2) ELSE half

AlphaAfter(n) == AlphaTicks(AlphaOne, n)

InitView ==
    /\ input = ""
    /\ loading = FALSE
    /\ conceptMap = EmptyMap
    /\ turns = [t \in TurnIds |-> IdleTurn]
    /\ nTurns = 0
    /\ arrived = NoArrival
    /\ animatedNodes = <<>>
    /\ alphaRef \in {AlphaAfter(0), AlphaAfter(MaxIdleTicks)}
    /\ frames = RequestAnimationFrame({}, SimOf(FirstProps))
    /\ mounted = TRUE
    /\ draggedNodeId = NoId
    /\ dragPos = NoPos
    /\ effectProps = FirstProps
    /\ ticks = 0
    /\ passes = <<>>

\* the proposals of the view's turns: a linked pair, and a third node
ViewProposals ==
    {[newNodes |-> <<LayoutNode(<<"a">>), LayoutNode(<<"b">>)>>,
      newLinks |-> <<LayoutLink(<<"a">>, <<"b">>)>>],
     [newNodes |-> <<LayoutNode(<<"c">>)>>, newLinks |-> <<>>]}
ViewResponses == {[kind |-> "json", data |-> d] : d \in ViewProposals}

NextView ==
    \/ \E resp \in ViewResponses : TurnCompletes(resp)
    \/ FlushEffects
    \/ Tick
    \/ \E i \in 1..MaxNewNodes, p \in Pointers : HandleMouseDown(i, p)
    \/ \E p \in Pointers : HandleMouseMove(p)
    \/ HandleMouseUp
    \/ Unmount

\* The display runs a requested frame in the end.  Of the view's steps only
\* Tick changes the tick counter, and Tick can be taken exactly when a
\* request is pending below the bound, so that weak fairness of the
\* counted tick is weak fairness of Tick.
TickCounted == ticks < MaxTicks /\ frames # {} /\ ticks' = ticks + 1

SpecView == InitView /\ [][NextView]_vars /\ WF_ticks(TickCounted)

\* Two placed nodes.  A drag pins a node at any pointer position of the
\* container and the release leaves it there at rest, so that two nodes can
\* stand at any offset from each other, overlapping or not, when a tick
\* begins; the second node carries a short or a long label.
LongLabel == <<"p", "h", "o", "t", "o", "s", "y", "n", "t", "h", "e", "s", "i", "s">>
PairLabels == {<<"b">>, LongLabel}
PairAnchor == [x |-> 230 * Unit, y |-> 200 * Unit]
PairOffsetsX == {-160, -100, 0, 10, 118, 140, 170}
PairOffsetsY == {-74, -24, 0, 10, 24, 80}

PairLinks(second) ==
    {<<>>,
     <<[source |-> <<"a">>, target |-> second, label |-> "x"]>>,
     <<[source |-> second, target |-> second, label |-> "x"]>>}

Placed(n, x, y) == [id |-> n.id, label |-> n.label, x |-> x, y |-> y, vx |-> 0, vy |-> 0]

InitPairs ==
    \E second \in PairLabels, ox \in PairOffsetsX, oy \in PairOffsetsY :
      \E links \in PairLinks(second) :
        /\ input = ""
        /\ loading = FALSE
        /\ conceptMap = [nodes |-> <<NewNode(<<"a">>), NewNode(second)>>, links |-> links]
        /\ turns = [t \in TurnIds |-> IF t = 1 THEN DoneTurn ELSE IdleTurn]
        /\ nTurns = 1
        /\ arrived = NoArrival
        /\ animatedNodes =
               <<Placed(NewNode(<<"a">>), PairAnchor.x, PairAnchor.y),
                 Placed(NewNode(second), PairAnchor.x + ox * Unit, PairAnchor.y + oy * Unit)>>
        /\ alphaRef = AlphaOne
        /\ mounted = TRUE
        /\ draggedNodeId = NoId
        /\ dragPos = NoPos
        /\ effectProps = [nodes |-> conceptMap.nodes, links |-> links,
                          width |-> Container.width, height |-> Container.height,
                          draggedNodeId |-> NoId, dragPos |-> NoPos]
        /\ frames = RequestAnimationFrame({}, SimOf(effectProps))
        /\ ticks = 0
        /\ passes = <<>>

NextPairs ==
    \/ FlushEffects
    \/ Tick
    \/ \E i \in 1..2, p \in Pointers : HandleMouseDown(i, p)
    \/ \E p \in Pointers : HandleMouseMove(p)
    \/ HandleMouseUp

SpecPairs == InitPairs /\ [][NextPairs]_vars

-----------------------------------------------------------------------------
(* Vocabulary of the graph-model properties *)

\* the labels of nodes that match label ignoring case
Matching(nodes, label) ==
    {nodes[i].label : i \in {k \in 1..Len(nodes) :
        /\ label # Undefined
        /\ nodes[k].label # Undefined
        /\ ToLower(nodes[k].label) = ToLower(label)}}

NodeLabels(nodes) == {nodes[i].label : i \in 1..Len(nodes)}

\* the entries of a node or link list
Entries(list) == {list[i] : i \in 1..Len(list)}

IsPrefix(a, b) == Len(a) <= Len(b) /\ \A i \in 1..Len(a) : a[i] = b[i]

\* a continuation is about to merge the arrived proposal into the map its
\* turn captured
Merging == arrived.turn # NoTurn
MergeBase == IF Merging THEN turns[arrived.turn].map ELSE EmptyMap
MergeData == ParseJSON(arrived.resp, EmptyData)
MergeResult == GenerateConceptMapUpdate(MergeBase, MergeData)

NoCaseDuplicates(nodes) ==
    \A i, j \in 1..Len(nodes) :
        i < j => ToLower(nodes[i].label) # ToLower(nodes[j].label)

OneLinkPerPair(links) ==
    \A i, j \in 1..Len(links) :
        i < j => ~(links[i].source = links[j].source /\ links[i].target = links[j].target)

NoDanglingLinks(map) ==
    \A i \in 1..Len(map.links) :
        /\ map.links[i].source \in NodeLabels(map.nodes)
        /\ map.links[i].target \in NodeLabels(map.nodes)

-----------------------------------------------------------------------------
(* C1: starting from the empty graph, after any sequence of merges no two  *)
(* nodes of conceptMap have labels that are equal ignoring case, and a     *)
(* merge adds exactly one node per case-insensitive class of candidate     *)
(* labels that the map it was given does not hold yet.                     *)
C1_CaseInsensitiveNodes ==
    /\ [](NoCaseDuplicates(conceptMap.nodes))
    /\ [][(Merging /\ MergeResult.ok) =>
            /\ conceptMap' = MergeResult.map
            /\ Len(conceptMap'.nodes) = Len(MergeBase.nodes)
                 + Cardinality({ToLower(c.label) : c \in Entries(MergeData.newNodes)}
                               \ {ToLower(l) : l \in NodeLabels(MergeBase.nodes)})
         ]_graphVars

\* "a" and "A" are proposed together for a map that holds neither
C1_Witness ==
    /\ Merging
    /\ MergeResult.ok
    /\ conceptMap.nodes # <<>>
    /\ \E i, j \in 1..Len(MergeData.newNodes) :
          /\ i < j
          /\ MergeData.newNodes[i].label = <<"a">>
          /\ MergeData.newNodes[j].label = <<"A">>
    /\ Matching(MergeBase.nodes, <<"a">>) = {}

(* C2: after any sequence of merges conceptMap holds at most one link per  *)
(* ordered (source, target) pair; a merge keeps the links it was given,    *)
(* labels included, and adds a proposed link exactly when both endpoints   *)
(* resolve and the resolved ordered pair is not stored yet: the reverse    *)
(* pair does not count as stored.                                          *)
C2_OneLinkPerOrderedPair ==
    /\ [](OneLinkPerPair(conceptMap.links))
    /\ [][(Merging /\ MergeResult.ok) =>
            /\ IsPrefix(MergeBase.links, conceptMap'.links)
            /\ \A l \in Entries(MergeData.newLinks) :
                 \A s \in Matching(conceptMap'.nodes, l.source) :
                   \A t \in Matching(conceptMap'.nodes, l.target) :
                     \E k \in 1..Len(conceptMap'.links) :
                        /\ conceptMap'.links[k].source = s
                        /\ conceptMap'.links[k].target = t
         ]_graphVars

\* a link a -> b is stored and proposed again as A -> b under another label
C2_Witness ==
    /\ Merging
    /\ MergeResult.ok
    /\ conceptMap = MergeBase
    /\ \E k \in 1..Len(MergeBase.links) :
          /\ MergeBase.links[k].source = <<"a">>
          /\ MergeBase.links[k].target = <<"b">>
          /\ \E l \in Entries(MergeData.newLinks) :
                /\ l.source = <<"A">>
                /\ l.target = <<"b">>
                /\ l.label # MergeBase.links[k].label

(* C3: after any number of merges every stored link's source and target    *)
(* are, character for character, labels of nodes of conceptMap.            *)
C3_NoDanglingLinks == NoDanglingLinks(conceptMap)

\* a link was stored under the node's casing "a" and one is proposed as "A"
C3_Witness ==
    /\ Merging
    /\ \E k \in 1..Len(conceptMap.links) : conceptMap.links[k].source = <<"a">>
    /\ \E l \in Entries(MergeData.newLinks) : l.source = <<"A">>
    /\ <<"A">> \notin NodeLabels(conceptMap.nodes)
    /\ Len(MergeResult.map.links) > Len(MergeBase.links)

(* C4: every link a merge adds is the resolution of a link of the proposal *)
(* being merged, both of whose endpoints match a node of the merged node   *)
(* set ignoring case: a proposed link with an unmatched endpoint is not    *)
(* added, and no link dropped by an earlier merge appears later without    *)
(* being proposed again.                                                   *)
C4_UnresolvedLinksDropped ==
    [][(Merging /\ MergeResult.ok) =>
          \A k \in (Len(MergeBase.links) + 1)..Len(conceptMap'.links) :
              \E l \in Entries(MergeData.newLinks) :
                 /\ conceptMap'.links[k].source \in Matching(conceptMap'.nodes, l.source)
                 /\ conceptMap'.links[k].target \in Matching(conceptMap'.nodes, l.target)
                 /\ conceptMap'.links[k].label = l.label
      ]_graphVars

\* a merge adds node "b" to a map holding "a" but no link, and does not
\* propose the link a -> b
C4_Witness ==
    /\ Merging
    /\ MergeResult.ok
    /\ NodeLabels(MergeBase.nodes) = {<<"a">>}
    /\ MergeBase.links = <<>>
    /\ MergeData.newNodes = <<[label |-> <<"b">>]>>
    /\ MergeData.newLinks = <<>>
    /\ nTurns = MaxTurns

(* C5: a concept node or link is never destroyed: every node and every     *)
(* link of conceptMap before a step is in conceptMap after it.             *)
C5_NothingDestroyed ==
    [][/\ Entries(conceptMap.nodes) \subseteq Entries(conceptMap'.nodes)
       /\ Entries(conceptMap.links) \subseteq Entries(conceptMap'.links)
      ]_graphVars

(* C6: merge is idempotent: merging the same proposal into the result of   *)
(* its first merge returns a map with the same nodes and links.            *)
C6_MergeIdempotent ==
    (Merging /\ MergeResult.ok) =>
        LET again == GenerateConceptMapUpdate(MergeResult.map, MergeData)
        IN  again.ok /\ again.map = MergeResult.map

-----------------------------------------------------------------------------
(* Vocabulary of the layout properties *)

\* the step is a frame callback
Ticking == ticks' = ticks + 1

\* n lies in [60, width - 60] x [60, height - 60]
InView(n, width, height) ==
    /\ BoundaryMargin * Unit <= n.x /\ n.x <= (width - BoundaryMargin) * Unit
    /\ BoundaryMargin * Unit <= n.y /\ n.y <= (height - BoundaryMargin) * Unit

\* the node is the one the callback of the coming tick pins to the pointer
Pinned(n) == n.id = effectProps.draggedNodeId /\ effectProps.dragPos.set

SamePlace(m, n) == m.x = n.x /\ m.y = n.y

\* the layout is two nodes of one width, neither dragged in the callback
\* of the coming tick
EqualPair ==
    /\ Len(animatedNodes) = 2
    /\ NodeWidth(animatedNodes[1].label) = NodeWidth(animatedNodes[2].label)
    /\ animatedNodes[1].id # effectProps.draggedNodeId
    /\ animatedNodes[2].id # effectProps.draggedNodeId

\* W + 30 and 44 + 30, in units
MinW(u) == (NodeWidth(u.label) + Padding) * Unit
MinH == (NodeHeight + Padding) * Unit

\* the padded footprints of u and v do not overlap
Separated(u, v) == Abs(u.x - v.x) >= MinW(u) \/ Abs(u.y - v.y) >= MinH

\* the centres of u and v are at least d pixels apart (to a tenth of a pixel)
CentresApart(u, v, d) == DistSq10(u.x - v.x, u.y - v.y) >= (d * 10) * (d * 10)

\* u lies on the ring of radius 80 around v
OnRing(u, v) ==
    /\ Abs(u.x - v.x) <= SpawnRadius * Unit
    /\ Abs(u.y - v.y) <= SpawnRadius * Unit
    /\ (u.x - v.x) * (u.x - v.x) + (u.y - v.y) * (u.y - v.y)
         = (SpawnRadius * Unit) * (SpawnRadius * Unit)

\* some link of the list joins the labels a and b
Linked(links, a, b) ==
    \E k \in 1..Len(links) :
        \/ links[k].source = a /\ links[k].target = b
        \/ links[k].source = b /\ links[k].target = a

-----------------------------------------------------------------------------
(* C7: after every tick every node, dragged or not, lies within            *)
(* [60, width - 60] x [60, height - 60] of the viewport the tick was given. *)
C7_EveryNodeInView ==
    [][Ticking =>
         \A i \in 1..Len(animatedNodes') :
             InView(animatedNodes'[i], effectProps.width, effectProps.height)]_vars

C10_SpawnsOnRing ==
    [][\A i \in (Len(animatedNodes) + 1)..Len(animatedNodes') :
          LET neighbours ==
                  {j \in 1..(i - 1) :
                      Linked(conceptMap.links, animatedNodes'[i].label,
                             animatedNodes'[j].label)}
          IN  neighbours # {} =>
                  \E j \in neighbours : OnRing(animatedNodes'[i], animatedNodes'[j])]_vars

\* the centre of the viewport of the latest render
CentreX == (Props.width * Unit) \div 2
CentreY == (Props.height * Unit) \div 2

\* the nodes before the i-th of the list that some link joins to it
NeighboursBefore(nodes, links, i) ==
    {j \in 1..(i - 1) : Linked(links, nodes[i].label, nodes[j].label)}

(* C11: a node new to the layout that no link joins to a node already in   *)
(* the layout is placed within 50 of the viewport centre on each axis, and *)
(* its place is drawn with the random jitter: the centre itself is not the *)
(* only point it can get.                                                  *)
C11_SpawnsWithJitter ==
    [][\A i \in (Len(animatedNodes) + 1)..Len(animatedNodes') :
          NeighboursBefore(animatedNodes', conceptMap.links, i) = {} =>
              /\ Abs(animatedNodes'[i].x - CentreX) <= 50 * Unit
              /\ Abs(animatedNodes'[i].y - CentreY) <= 50 * Unit
              /\ SpawnPoints(SubSeq(animatedNodes', 1, i - 1), animatedNodes'[i],
                             conceptMap.links, Props.width, Props.height)
                     # {<<CentreX, CentreY>>}]_vars

\* ---------------------------------------------------------------------
\* The frame loop

Requested == \E f \in frames : f.current

(* C12: while the view is mounted the ticks never stop: every executed
   tick leaves a frame requested, whatever the value of alpha, and from
   every state of the mounted view, the ones after a change of the drag
   state, the links or the viewport included, a further tick is executed
   (or the view is torn down first). *)
C12_TicksNeverStop ==
    /\ [][Ticking => Requested']_vars
    /\ \A n \in 0..(MaxTicks - 1) : (mounted /\ ticks = n) ~> (ticks > n \/ ~mounted)

C12_Witness ==
    /\ mounted
    /\ ticks > 0
    /\ alphaRef <= AlphaMin
    /\ Requested

(* C13: once the view is torn down no tick is executed any more and no
   request of an animation frame stays pending. *)
C13_TeardownStopsTicks ==
    /\ [][~mounted => ~Ticking]_vars
    /\ [](~mounted => frames = {})

C13_Witness ==
    /\ ~mounted
    /\ ticks > 0
    /\ draggedNodeId # NoId
    /\ frames = {}

\* ---------------------------------------------------------------------
\* The end of a drag

Releasing == draggedNodeId # NoId /\ draggedNodeId' = NoId

\* the node of the layout with this id is at rest
AtRest(nodes, id) ==
    \A i \in 1..Len(nodes) : nodes[i].id = id => nodes[i].vx = 0 /\ nodes[i].vy = 0

(* C14: the release of the pointer ends the drag: the drag state is
   cleared, dragged node and pointer position both, and at that moment the
   velocity of the released node is (0, 0), also when no tick ran between
   the start and the end of the drag. *)
C14_ReleaseZeroesVelocity ==
    [][Releasing => /\ dragPos' = NoPos
                    /\ AtRest(animatedNodes', draggedNodeId)]_vars

\* ---------------------------------------------------------------------
\* Turns that bring no proposal

\* the chat call or the concept-map call of a turn fails
CallFails == \E t \in TurnIds : ChatRejected(t) \/ MapRejected(t)

\* a turn ends whose response is absent, unparseable or an empty proposal
EmptyProposal == MapContinue /\ MergeData = EmptyData

(* C15: a turn whose chat call or concept-map call fails, or whose
   proposal is empty or unparseable, merges nothing: the step that ends the
   turn leaves the nodes and links of the graph as they were, and sets the
   loading flag to false. *)
C15_NoMergeOnFailure ==
    [][(CallFails \/ EmptyProposal) => /\ conceptMap' = conceptMap
                                       /\ loading' = FALSE]_vars

(* C16: the merge has no error outcome: for every parsed proposal,
   entries without label, source or target included, the merge completes
   and returns a graph. *)
C16_MergeCompletes == Merging => MergeResult.ok

\* ---------------------------------------------------------------------
\* Forces around the dragged node

\* the layout with the dragged node already at the pointer position
PinnedAt(nodes, id, pointer) ==
    [i \in 1..Len(nodes) |->
        IF nodes[i].id = id
        THEN [nodes[i] EXCEPT !.x = pointer.x, !.y = pointer.y]
        ELSE nodes[i]]

(* C17: in a tick with a dragged node, the repulsion, the springs and the
   collision passes act on the other nodes as seen from the pointer
   position the tick is given for the dragged node, not from the position
   the dragged node had before the tick. *)
C17_ForcesFromPointer ==
    [][(Ticking /\ effectProps.draggedNodeId # NoId /\ effectProps.dragPos.set) =>
          animatedNodes' =
              Simulate(PinnedAt(animatedNodes, effectProps.draggedNodeId,
                                effectProps.dragPos),
                       effectProps.links, effectProps.width, effectProps.height,
                       effectProps.draggedNodeId, effectProps.dragPos)]_vars

\* ---------------------------------------------------------------------
\* One collision pass over a pair

\* the layout is two nodes, neither dragged in the callback of the coming tick
FreePair ==
    /\ Len(animatedNodes) = 2
    /\ animatedNodes[1].id # effectProps.draggedNodeId
    /\ animatedNodes[2].id # effectProps.draggedNodeId

\* (wu + wv) / 2 + 30, in units
PairMinW(u, v) == ((NodeWidth(u.label) + NodeWidth(v.label)) * Unit) \div 2 + Padding * Unit

\* the nodes of the coming tick as its collision passes find them
BeforePasses ==
    Forces(animatedNodes, effectProps.links, effectProps.width, effectProps.height,
           effectProps.draggedNodeId)

\* on one axis, coordinates u0 and v0 became u1 and v1: the two moved in
\* opposite directions, each by half of overlap (to the unit), and are
\* overlap further apart
HalfEach(u0, v0, u1, v1, overlap) ==
    /\ Abs(u1 - v1) = Abs(u0 - v0) + overlap
    /\ Abs(u1 - u0) + Abs(v1 - v0) = overlap
    /\ Abs(Abs(u1 - u0) - Abs(v1 - v0)) <= 1
    /\ (u1 - u0) * (v1 - v0) <= 0

(* C18: for two non-dragged nodes whose padded footprints overlap on both
   axes (|dx| < (wu + wv) / 2 + 30 and |dy| < 74) the collision passes push
   the two along the axis of the strictly smaller overlap, along y when the
   overlaps are equal: each moves half of that overlap, in opposite
   directions, so that the overlap becomes zero, the velocity of both on
   that axis is multiplied by 0.1, and the other axis is left alone; a pair
   that does not overlap is left unchanged. *)
C18_PairPushedApart ==
    [][(Ticking /\ FreePair) =>
         LET u == BeforePasses[1]
             v == BeforePasses[2]
             pu == passes'[1]
             pv == passes'[2]
             overlapX == PairMinW(u, v) - Abs(u.x - v.x)
             overlapY == MinH - Abs(u.y - v.y)
         IN  IF overlapX > 0 /\ overlapY > 0
             THEN IF overlapX < overlapY
                  THEN /\ HalfEach(u.x, v.x, pu.x, pv.x, overlapX)
                       /\ Abs(pu.x - pv.x) = PairMinW(u, v)
                       /\ pu.vx = Quot(u.vx, 10) /\ pv.vx = Quot(v.vx, 10)
                       /\ pu.y = u.y /\ pv.y = v.y
                       /\ pu.vy = u.vy /\ pv.vy = v.vy
                  ELSE /\ HalfEach(u.y, v.y, pu.y, pv.y, overlapY)
                       /\ Abs(pu.y - pv.y) = MinH
                       /\ pu.vy = Quot(u.vy, 10) /\ pv.vy = Quot(v.vy, 10)
                       /\ pu.x = u.x /\ pv.x = v.x
                       /\ pu.vx = u.vx /\ pv.vx = v.vx
             ELSE passes' = BeforePasses]_vars

\* the passes of a tick have pushed two nodes of different widths apart
\* horizontally, to (wu + wv) / 2 + 30 exactly
C18_Witness ==
    /\ ticks > 0
    /\ Len(passes) = 2
    /\ NodeWidth(passes[1].label) # NodeWidth(passes[2].label)
    /\ effectProps.draggedNodeId = NoId
    /\ Abs(passes[1].x - passes[2].x) = PairMinW(passes[1], passes[2])
    /\ Abs(passes[1].y - passes[2].y) < MinH
    /\ passes[1].vx # 0

\* ---------------------------------------------------------------------
\* Integration

\* vx * 0.65; the limit of 8 a tick; the stop below 0.05
Slowed(v) == Scale(v, 65, 100)
Limited(v) == IF v > MaxV * Unit THEN MaxV * Unit ELSE IF v < -(MaxV * Unit) THEN -(MaxV * Unit) ELSE v
Snapped(v) == IF Abs(v) * 100 < 5 * Unit THEN 0 ELSE v

\* a coordinate kept lo..hi pixels
Kept(lo, hi, a) == IF a < lo * Unit THEN lo * Unit ELSE IF a > hi * Unit THEN hi * Unit ELSE a

(* C19: after every tick the velocity of each non-dragged node is, on each
   axis, at most 8 in size and either 0 or at least 0.05 in size; it is the
   velocity the collision passes left, damped by 0.65, then limited to
   -8..8, then stopped when below 0.05, in that order; and the node has
   moved by exactly that velocity from where the passes left it, before the
   boundary clamp. *)
C19_VelocityBounded ==
    [][Ticking =>
         \A i \in 1..Len(animatedNodes') :
             LET n == animatedNodes'[i]
                 p == passes'[i]
             IN  ~Pinned(n) =>
                     /\ Abs(n.vx) <= MaxV * Unit
                     /\ Abs(n.vy) <= MaxV * Unit
                     /\ n.vx = 0 \/ Abs(n.vx) * 100 >= 5 * Unit
                     /\ n.vy = 0 \/ Abs(n.vy) * 100 >= 5 * Unit
                     /\ n.vx = Snapped(Limited(Slowed(p.vx)))
                     /\ n.vy = Snapped(Limited(Slowed(p.vy)))
                     /\ n.x = Kept(BoundaryMargin, effectProps.width - BoundaryMargin,
                                   p.x + n.vx)
                     /\ n.y = Kept(BoundaryMargin, effectProps.height - BoundaryMargin,
                                   p.y + n.vy)]_vars

\* a tick has left a non-dragged node at the speed limit on one axis and
\* stopped on the other, and the node has moved by that velocity
C19_Witness ==
    /\ ticks > 0
    /\ Len(passes) = Len(animatedNodes)
    /\ \E i \in 1..Len(animatedNodes) :
           /\ ~Pinned(animatedNodes[i])
           /\ Abs(animatedNodes[i].vx) = MaxV * Unit
           /\ Abs(passes[i].vx) > 2 * MaxV * Unit
           /\ animatedNodes[i].vy = 0
           /\ passes[i].vy # 0
           /\ animatedNodes[i].x = passes[i].x + animatedNodes[i].vx

\* ---------------------------------------------------------------------
\* The ends of a drawn link

\* p lies on the rectangle of width + 4 by height + 4 around target, on the
\* side that faces from; it is target itself when from is less than 1 away
\* on both axes
OnFacingSide(from, target, width, height, p) ==
    LET dx == target.x - from.x
        dy == target.y - from.y
        halfW == ((width + 4) * Unit) \div 2
        halfH == ((height + 4) * Unit) \div 2
    IN  IF Abs(dx) < Unit /\ Abs(dy) < Unit
        THEN p.x = target.x /\ p.y = target.y
        ELSE \/ /\ Abs(p.x - target.x) = halfW
                /\ Abs(p.y - target.y) <= halfH
                /\ (p.x - target.x) * dx < 0
             \/ /\ Abs(p.y - target.y) = halfH
                /\ Abs(p.x - target.x) <= halfW
                /\ (p.y - target.y) * dy < 0

(* C20: getIntersection returns target unchanged when |dx| < 1 and
   |dy| < 1, and otherwise a point on the boundary of the rectangle of
   width + 4 by height + 4 centred on target, on the side facing from:
   |x - tx| = (w + 4) / 2 with |y - ty| <= (h + 4) / 2, or
   |y - ty| = (h + 4) / 2 with |x - tx| <= (w + 4) / 2.  Stated of both
   ends of every link the view draws. *)
C20_IntersectionOnBoundary ==
    \A k \in 1..Len(conceptMap.links) :
        Drawn(k) =>
            /\ OnFacingSide(LinkTarget(k), LinkSource(k),
                            NodeWidth(LinkSource(k).label), NodeHeight, LinkStart(k))
            /\ OnFacingSide(LinkSource(k), LinkTarget(k),
                            NodeWidth(LinkTarget(k).label), NodeHeight, LinkEnd(k))

\* after a tick a link between two nodes ends on the top or bottom side of
\* its target, off the middle of the side and off its corners
C20_Witness ==
    /\ ticks > 0
    /\ \E k \in 1..Len(conceptMap.links) :
           /\ Drawn(k)
           /\ LinkSource(k).id # LinkTarget(k).id
           /\ Abs(LinkEnd(k).y - LinkTarget(k).y) = ((NodeHeight + 4) * Unit) \div 2
           /\ LinkEnd(k).x # LinkTarget(k).x
           /\ Abs(LinkEnd(k).x - LinkTarget(k).x)
                  < ((NodeWidth(LinkTarget(k).label) + 4) * Unit) \div 2

\* ---------------------------------------------------------------------
\* Divisions

Finite(a) == a \in Int /\ Abs(a) < NotFinite

FiniteNode(n) == Finite(n.x) /\ Finite(n.y) /\ Finite(n.vx) /\ Finite(n.vy)

(* C21: no division by zero reaches the positions: in every tick, also
   over two nodes at exactly the same position and over a link whose ends
   coincide, the repulsion between every two nodes is finite (a zero
   distance counts as distance 1) and the tick leaves every node with
   finite position and velocity; and both ends of every drawn link, as
   getIntersection returns them, dx = 0 included, are finite. *)
C21_NoDivisionByZero ==
    /\ [][Ticking =>
            /\ \A i, j \in 1..Len(animatedNodes) :
                   /\ Finite(Repel(animatedNodes[i], animatedNodes[j])[1])
                   /\ Finite(Repel(animatedNodes[i], animatedNodes[j])[2])
            /\ \A i \in 1..Len(animatedNodes') :
                   FiniteNode(animatedNodes'[i]) /\ FiniteNode(passes'[i])]_vars
    /\ [](\A k \in 1..Len(conceptMap.links) :
              Drawn(k) => /\ Finite(LinkStart(k).x) /\ Finite(LinkStart(k).y)
                          /\ Finite(LinkEnd(k).x) /\ Finite(LinkEnd(k).y))

\* a tick has run over two linked nodes at one position (the passes have
\* parted them along y only and left no velocity on y), and the link
\* between them is drawn with dx = 0
C21_Witness ==
    /\ ticks = 1
    /\ Len(passes) = 2
    /\ effectProps.draggedNodeId = NoId
    /\ passes[1].x = passes[2].x
    /\ Abs(passes[1].y - passes[2].y) = MinH
    /\ passes[1].vy = 0 /\ passes[2].vy = 0
    /\ \E k \in 1..Len(conceptMap.links) :
           /\ Drawn(k)
           /\ LinkSource(k).id # LinkTarget(k).id
           /\ LinkSource(k).x = LinkTarget(k).x
           /\ LinkEnd(k).x = LinkTarget(k).x

\* ---------------------------------------------------------------------
\* The decay scalar

\* the step adds a node to the layout
Spawning == Len(animatedNodes') > Len(animatedNodes)

(* C22, as amended: alpha is set to its maximum 1 whenever a node is added
   to the layout; a tick multiplies it by 0.98 while it is above 0.01, so
   that it strictly decreases from tick to tick down to the first value at
   or below 0.01, and leaves it unchanged from then on until the next new
   node. *)
C22_AlphaDecaysToFloor ==
    [][/\ Spawning => alphaRef' = AlphaOne
       /\ (Ticking /\ alphaRef > AlphaMin) =>
              alphaRef' = Scale(alphaRef, 98, 100) /\ alphaRef' < alphaRef
       /\ (Ticking /\ alphaRef <= AlphaMin) => alphaRef' = alphaRef]_vars

\* a node was added and two ticks have run since
C22_Witness ==
    /\ Len(animatedNodes) > 0
    /\ ticks = 2
    /\ alphaRef = Scale(Scale(AlphaOne, 98, 100), 98, 100)

(* C22, as stated: alpha is set to 1 whenever a node is added, and every
   tick multiplies it by 0.98, so that it strictly decreases from tick to
   tick. *)
C22_AlphaDecaysEveryTick ==
    [][/\ Spawning => alphaRef' = AlphaOne
       /\ Ticking => alphaRef' = Scale(alphaRef, 98, 100) /\ alphaRef' < alphaRef]_vars

\* ---------------------------------------------------------------------
\* What a tick leaves alone

\* the ids and labels of the layout's nodes, in their order
Identities(nodes) == [i \in 1..Len(nodes) |-> <<nodes[i].id, nodes[i].label>>]

(* C23: a tick changes only positions and velocities of the layout's
   nodes: it leaves the drag state (dragged node and pointer position),
   the nodes and links of the graph model, and the number, order, ids and
   labels of the layout's nodes as they were. *)
C23_TickMovesOnly ==
    [][Ticking => /\ draggedNodeId' = draggedNodeId
                  /\ dragPos' = dragPos
                  /\ conceptMap' = conceptMap
                  /\ Identities(animatedNodes') = Identities(animatedNodes)]_vars

\* a tick has run over linked nodes during a drag of the first of them
\* and has moved another node
C23_Witness ==
    /\ ticks > 0
    /\ Len(animatedNodes) >= 2
    /\ Len(passes) = Len(animatedNodes)
    /\ conceptMap.links # <<>>
    /\ draggedNodeId = animatedNodes[1].id
    /\ Pinned(animatedNodes[1])
    /\ animatedNodes[1].x = dragPos.x
    /\ animatedNodes[2].vx # 0

\* ---------------------------------------------------------------------
\* Nodes added while the simulation runs

\* the ids of the nodes of a list
IdsOf(nodes) == {nodes[i].id : i \in 1..Len(nodes)}

\* how often id occurs in the list
Occurrences(nodes, id) == Cardinality({i \in 1..Len(nodes) : nodes[i].id = id})

(* C24: when a merge adds nodes while the simulation runs, the sync puts
   each added node into the layout exactly once, with a position and with
   velocity (0, 0), and leaves position and velocity of every node already
   in the layout as they were; and the next tick runs over the whole
   layout, the added nodes included. *)
C24_AddedNodesAppear ==
    [][/\ Spawning =>
            /\ \A i \in 1..Len(animatedNodes) :
                   /\ animatedNodes'[i].id = animatedNodes[i].id
                   /\ animatedNodes'[i].x = animatedNodes[i].x
                   /\ animatedNodes'[i].y = animatedNodes[i].y
                   /\ animatedNodes'[i].vx = animatedNodes[i].vx
                   /\ animatedNodes'[i].vy = animatedNodes[i].vy
            /\ \A i \in (Len(animatedNodes) + 1)..Len(animatedNodes') :
                   /\ animatedNodes'[i].vx = 0 /\ animatedNodes'[i].vy = 0
                   /\ Finite(animatedNodes'[i].x) /\ Finite(animatedNodes'[i].y)
            /\ \A id \in IdsOf(conceptMap.nodes) : Occurrences(animatedNodes', id) = 1
       /\ Ticking =>
            animatedNodes' = Simulate(animatedNodes, effectProps.links, effectProps.width,
                                      effectProps.height, effectProps.draggedNodeId,
                                      effectProps.dragPos)]_vars

\* a node has been added to a layout whose nodes were moving, and a tick
\* has run over it since
C24_Witness ==
    /\ ticks = MaxTicks
    /\ Len(animatedNodes) >= 2
    /\ Len(passes) = Len(animatedNodes)
    /\ nTurns = MaxTurns
    /\ animatedNodes[1].vx # 0
    /\ animatedNodes[Len(animatedNodes)].vx # 0
    /\ animatedNodes[Len(animatedNodes)].id = conceptMap.nodes[Len(conceptMap.nodes)].id
    /\ alphaRef = Scale(AlphaOne, 98, 100)

\* ---------------------------------------------------------------------
\* One tick loop

(* C25: at every moment at most one request of an animation frame is
   pending, and it is the request requestRef.current names, for the
   callback of the last effect run: when the callback is re-created the
   pending request of the old callback is cancelled before the new one is
   made, so that two tick loops never run side by side. *)
C25_OneRequestPending ==
    /\ Cardinality(frames) <= 1
    /\ \A f \in frames : f.current /\ f.sim = SimOf(effectProps)

\* ticks have run, the callback was re-created for a drag over linked
\* nodes, and one request is pending
C25_Witness ==
    /\ mounted
    /\ ticks > 0
    /\ Cardinality(frames) = 1
    /\ effectProps.draggedNodeId # NoId
    /\ effectProps.dragPos = dragPos
    /\ effectProps.links # <<>>

\* ---------------------------------------------------------------------
\* One turn at a time

\* the turns whose chat call or concept-map call is still awaited
InFlight == {t \in TurnIds : turns[t].phase \in {"chat", "map"}}

(* C26: at most one conversation turn is in flight at a time: while a
   turn is loading no other handleSend starts, from the send button or
   from the Enter key, so every merge is computed from the graph model
   the previous merge produced, which is the conceptMap of that moment. *)
C26_OneTurnInFlight ==
    /\ Cardinality(InFlight) <= 1
    /\ Merging => MergeBase = conceptMap

\* ---------------------------------------------------------------------
\* Layout and graph model

\* The turns of the conversation, as the events let them overlap, together
\* with the effects of the layout engine that follow each render.
NextTurns ==
    \/ \E txt \in InputTexts : TypeInput(txt)
    \/ PressEnter
    \/ ClickSend
    \/ \E t \in TurnIds : ChatResolved(t)
    \/ \E t \in TurnIds : ChatRejected(t)
    \/ \E t \in TurnIds, resp \in LayoutResponses : MapResponse(t, resp)
    \/ \E t \in TurnIds : MapRejected(t)
    \/ MapContinue
    \/ FlushEffects

SpecTurns == Init /\ [][NextTurns]_vars

\* the first effect has run for the nodes and links of the graph model
Synced == effectProps.nodes = conceptMap.nodes /\ effectProps.links = conceptMap.links

(* C27: once the sync effect has run after an update of the graph model,
   the node ids of the layout engine are the node ids of the graph model:
   the layout keeps no node the graph model does not contain, after any
   sequence of turns. *)
C27_LayoutMatchesGraph ==
    Synced => IdsOf(animatedNodes) = IdsOf(conceptMap.nodes)

\* ---------------------------------------------------------------------
\* The merge only extends

\* the entries of list b after the first Len(a)
Added(a, b) == {b[k] : k \in (Len(a) + 1)..Len(b)}

(* C28: generateConceptMapUpdate does not change the map it is given and
   only extends it: the node list and the link list it returns each start
   with the list of the input, entry for entry in the same order, and the
   entries after that are new ones; the maps other turns hold stay as
   they are when the merge runs. *)
C28_MergeOnlyExtends ==
    /\ []((Merging /\ MergeResult.ok) =>
            /\ IsPrefix(MergeBase.nodes, MergeResult.map.nodes)
            /\ IsPrefix(MergeBase.links, MergeResult.map.links)
            /\ Added(MergeBase.nodes, MergeResult.map.nodes)
                  \cap Entries(MergeBase.nodes) = {}
            /\ Added(MergeBase.links, MergeResult.map.links)
                  \cap Entries(MergeBase.links) = {})
    /\ [][Merging =>
            \A t \in TurnIds \ {arrived.turn} : turns'[t].map = turns[t].map
         ]_graphVars

\* a map that holds a node and a link is given, and the merge adds a node
\* and a link to it
C28_Witness ==
    /\ Merging
    /\ MergeResult.ok
    /\ MergeBase = conceptMap
    /\ MergeBase.nodes # <<>>
    /\ MergeBase.links # <<>>
    /\ Len(MergeResult.map.nodes) > Len(MergeBase.nodes)
    /\ Len(MergeResult.map.links) > Len(MergeBase.links)

\* ---------------------------------------------------------------------
\* Collision with the dragged node

\* what is left of overlap o after n passes that each take half of it
\* away (to the unit)
RECURSIVE LeftAfter(_, _)
LeftAfter(o, n) ==
    IF n = 0 THEN {o}
    ELSE LeftAfter(o \div 2, n - 1) \cup LeftAfter(o - o \div 2, n - 1)

\* the callback of the coming tick holds one of two layout nodes as dragged
DraggedPair ==
    /\ Len(animatedNodes) = 2
    /\ \E d \in 1..2 : animatedNodes[d].id = effectProps.draggedNodeId

(* C29: collision resolution never changes the position of the dragged
   node: in the passes of a tick the dragged node stays where the forces
   step left it, and when its padded footprint overlaps the other node's,
   only the other node is displaced, away from the dragged node along the
   axis of the smaller overlap, by half of the overlap left in each of the
   three passes; without overlap the other node is not displaced. *)
C29_DraggedNotDisplaced ==
    [][(Ticking /\ DraggedPair) =>
         LET d == CHOOSE i \in 1..2 : animatedNodes[i].id = effectProps.draggedNodeId
             u == BeforePasses[d]
             v == BeforePasses[3 - d]
             pu == passes'[d]
             pv == passes'[3 - d]
             overlapX == PairMinW(u, v) - Abs(u.x - v.x)
             overlapY == MinH - Abs(u.y - v.y)
         IN  /\ pu.x = u.x /\ pu.y = u.y
             /\ IF overlapX > 0 /\ overlapY > 0
                THEN IF overlapX < overlapY
                     THEN /\ pv.y = v.y
                          /\ \E left \in LeftAfter(overlapX, Passes) :
                                Abs(pv.x - pu.x) = PairMinW(u, v) - left
                     ELSE /\ pv.x = v.x
                          /\ \E left \in LeftAfter(overlapY, Passes) :
                                Abs(pv.y - pu.y) = MinH - left
                ELSE pv.x = v.x /\ pv.y = v.y
      ]_vars

\* a tick has run whose callback held the first node as dragged while the
\* second overlapped it: the second was displaced along x, the first stayed
C29_Witness ==
    /\ ticks = 1
    /\ Len(passes) = 2
    /\ effectProps.draggedNodeId = passes[1].id
    /\ passes[1].x = PairAnchor.x /\ passes[1].y = PairAnchor.y
    /\ passes[2].y = PairAnchor.y + 10 * Unit
    /\ passes[2].x > PairAnchor.x + 140 * Unit
    /\ passes[2].x < PairAnchor.x + PairMinW(passes[1], passes[2])

\* ---------------------------------------------------------------------
\* The spring step over self-loops and loose links

\* The layout hook over the link lists it can be handed: two placed nodes
\* and links between them, from a node to itself, and with an end that is
\* the label of no node.
LooseLabel == <<"z">>
SpringLink(s, t) == [source |-> s, target |-> t, label |-> "x"]
SpringLinks(second) ==
    {<<SpringLink(second, second)>>,
     <<SpringLink(<<"a">>, <<"a">>), SpringLink(<<"a">>, second)>>,
     <<SpringLink(second, LooseLabel)>>,
     <<SpringLink(LooseLabel, <<"a">>)>>,
     <<SpringLink(LooseLabel, LooseLabel), SpringLink(<<"a">>, second)>>,
     <<SpringLink(second, second), SpringLink(second, LooseLabel)>>}
SpringOffsetsX == {0, 118, 170}
SpringOffsetsY == {0, 24, 80}

InitSpring ==
    \E second \in PairLabels, ox \in SpringOffsetsX, oy \in SpringOffsetsY :
      \E links \in SpringLinks(second) :
        /\ input = ""
        /\ loading = FALSE
        /\ conceptMap = [nodes |-> <<NewNode(<<"a">>), NewNode(second)>>, links |-> links]
        /\ turns = [t \in TurnIds |-> IF t = 1 THEN DoneTurn ELSE IdleTurn]
        /\ nTurns = 1
        /\ arrived = NoArrival
        /\ animatedNodes =
               <<Placed(NewNode(<<"a">>), PairAnchor.x, PairAnchor.y),
                 Placed(NewNode(second), PairAnchor.x + ox * Unit, PairAnchor.y + oy * Unit)>>
        /\ alphaRef = AlphaOne
        /\ mounted = TRUE
        /\ draggedNodeId = NoId
        /\ dragPos = NoPos
        /\ effectProps = [nodes |-> conceptMap.nodes, links |-> links,
                          width |-> Container.width, height |-> Container.height,
                          draggedNodeId |-> NoId, dragPos |-> NoPos]
        /\ frames = RequestAnimationFrame({}, SimOf(effectProps))
        /\ ticks = 0
        /\ passes = <<>>

SpecSpring == InitSpring /\ [][NextPairs]_vars

\* the link runs from a node to itself
SelfLoop(l) == l.source = l.target

\* an end of the link is the label of none of the nodes
Loose(nodes, l) == FindLabel(nodes, l.source) = 0 \/ FindLabel(nodes, l.target) = 0

\* the nodes of the coming tick as its spring step finds them
BeforeSprings ==
    Centering(Repulsion(animatedNodes, PairsOf(Len(animatedNodes)), 1,
                        effectProps.draggedNodeId),
              effectProps.width, effectProps.height, effectProps.draggedNodeId)

\* the links of the coming tick without the self-loops and the loose ones
LiveLinks ==
    SelectSeq(effectProps.links,
              LAMBDA l : ~SelfLoop(l) /\ ~Loose(animatedNodes, l))

(* C30: in the spring step of a tick a self-loop link (source = target)
   changes no velocity of its node, and a link whose source or target is
   the label of no layout node is skipped without effect: the tick comes
   out as it would without these links. *)
C30_SpringSkipsLoops ==
    [][Ticking =>
         /\ \A k \in 1..Len(effectProps.links) :
               (SelfLoop(effectProps.links[k]) \/ Loose(animatedNodes, effectProps.links[k]))
                  => Attraction(BeforeSprings, <<effectProps.links[k]>>, 1,
                                effectProps.draggedNodeId) = BeforeSprings
         /\ passes' = Collision(Attraction(BeforeSprings, LiveLinks, 1,
                                           effectProps.draggedNodeId),
                                1, effectProps.draggedNodeId)
         /\ animatedNodes' = Simulate(animatedNodes, LiveLinks, effectProps.width,
                                      effectProps.height, effectProps.draggedNodeId,
                                      effectProps.dragPos)
      ]_vars

\* a tick has run over a self-loop and a link with a loose end, with the
\* two nodes in different places
C30_Witness ==
    /\ ticks = 1
    /\ Len(passes) = 2
    /\ passes[1].x # passes[2].x
    /\ \E k \in 1..Len(effectProps.links) : SelfLoop(effectProps.links[k])
    /\ \E k \in 1..Len(effectProps.links) :
          /\ ~SelfLoop(effectProps.links[k])
          /\ Loose(animatedNodes, effectProps.links[k])

====
